---- MODULE Spec2Model ----
(***************************************************************************)
(* A model of package vector (vector.go): a resizable vector of ints held  *)
(* in a Go slice, with a growth multiplier.  Every public method runs its  *)
(* whole body under the instance's lock, so for a single client one method *)
(* call is one action (Spec).  The section on threads takes the lock and   *)
(* the body apart, for several callers at once (SpecConc, FairSpecConc).   *)
(*                                                                         *)
(* A Go slice is modelled by its visible elements and its capacity.  The   *)
(* contents of the backing array beyond the length are never read by the   *)
(* package (every reslice that extends the length writes the new cells     *)
(* first), so they are not part of the state.                              *)
(***************************************************************************)
EXTENDS Integers, Sequences, FiniteSets, TLC

(***************************************************************************)
(* Bounds of the model.                                                    *)
(***************************************************************************)
\* the largest length a vector reaches under the free client
MaxLen == 3
\* the elements are 0..MaxItem
MaxItem == 1
\* NewWithCap is called with a capacity in 0..MaxCap0
MaxCap0 == 2
\* NewWithCap is called with a multiplier in -1..MaxMult
MaxMult == 2
\* AppendAll is called with at most MaxBatch items
MaxBatch == 2
\* the appending loop runs until this many items past the default capacity
RunExtra == 1

(***************************************************************************)
(* Program constants.                                                      *)
(***************************************************************************)
defaultCapacity == 10
defaultMultiplier == 2

ErrNil == "nil"
ErrInvalidIndex == "missing element with the given index"
ErrSizeDiffers == "non equal vectors"

Items == 0..MaxItem
Multipliers == -1..MaxMult
Capacities == 0..MaxCap0

Min(a, b) == IF a < b THEN a ELSE b
Max(a, b) == IF a < b THEN b ELSE a

\* the sequences over S of length at most n
RECURSIVE SeqsUpTo(_, _)
SeqsUpTo(S, n) ==
    IF n = 0 THEN {<<>>}
    ELSE LET shorter == SeqsUpTo(S, n - 1)
         IN shorter \cup {Append(s, x) : s \in {t \in shorter : Len(t) = n - 1}, x \in S}

Batches == SeqsUpTo(Items, MaxBatch)

\* a callback func(item int) bool is the set of the items it answers true for
Predicates == SUBSET Items
callPred(cb, item) == item \in cb

(***************************************************************************)
(* Go's slice builtins, as the package uses them.                          *)
(***************************************************************************)
\* make([]int, 0, c)
make(c) == [elems |-> <<>>, cap |-> c]
len(s) == Len(s.elems)
cap(s) == s.cap
\* s[i], zero based
at(s, i) == s.elems[i + 1]
\* the elements of s[lo:]
elemsFrom(s, lo) == SubSeq(s.elems, lo + 1, Len(s.elems))
\* s[:hi] with hi <= len(s): the same backing array, the same capacity
sliceTo(s, hi) == [elems |-> SubSeq(s.elems, 1, hi), cap |-> s.cap]
\* the capacity the runtime gives a slice that append must reallocate
growslice(s, need) == IF need > 2 * s.cap THEN need ELSE 2 * s.cap
\* append(s, xs...): in place while the capacity allows, else reallocated
goAppend(s, xs) ==
    IF len(s) + Len(xs) <= s.cap
    THEN [elems |-> s.elems \o xs, cap |-> s.cap]
    ELSE [elems |-> s.elems \o xs, cap |-> growslice(s, len(s) + Len(xs))]
\* copy(s[d:], s[f:]): moves min(len(s)-d, len(s)-f) elements, as memmove does
copy(s, d, f) ==
    LET n == Min(len(s) - d, len(s) - f)
    IN [s EXCEPT !.elems = SubSeq(s.elems, 1, d)
                           \o SubSeq(s.elems, f + 1, f + n)
                           \o SubSeq(s.elems, d + n + 1, Len(s.elems))]
\* s[i] = x
setAt(s, i, x) == [s EXCEPT !.elems[i + 1] = x]

(***************************************************************************)
(* The Vector and its unexported helpers.                                  *)
(***************************************************************************)
NewWithCap(c, multiplier) == [multiplier |-> multiplier, items |-> make(c)]
New == NewWithCap(defaultCapacity, defaultMultiplier)

increaseCapTo(vec, newCap) ==
    IF newCap <= cap(vec.items) THEN vec
    ELSE [vec EXCEPT !.items = goAppend(make(newCap), vec.items.elems)]

\* increaseCapToAtLest without the multiplier: grows to the target only
increaseCapToAtLestNoMultiplier(vec, targetCap) ==
    IF targetCap <= cap(vec.items) THEN vec
    ELSE increaseCapTo(vec, targetCap)

increaseCapToAtLest(vec, targetCap) ==
    IF targetCap <= cap(vec.items) THEN vec
    ELSE LET product == cap(vec.items) * vec.multiplier
             newCap == IF product < targetCap THEN targetCap ELSE product
         IN increaseCapTo(vec, newCap)

\* checkIndex with the lower bound off by one: index 0 is refused
checkIndexRejectsZero(vec, index) ==
    IF index <= 0 \/ index > len(vec.items) - 1 THEN ErrInvalidIndex ELSE ErrNil

checkIndex(vec, index) ==
    IF index < 0 \/ index > len(vec.items) - 1 THEN ErrInvalidIndex ELSE ErrNil

\* append that writes the items without making room for them first
appendUnchecked(vec, xs) == [vec EXCEPT !.items.elems = @ \o xs]

append(vec, xs) ==
    LET grown == increaseCapToAtLest(vec, len(vec.items) + Len(xs))
    IN [grown EXCEPT !.items = goAppend(grown.items, xs)]

\* remove with the tail taken from index instead of index+1: nothing goes
removeKeepsAll(vec, index) ==
    [r |-> at(vec.items, index),
     v |-> [vec EXCEPT !.items = goAppend(sliceTo(vec.items, index),
                                          elemsFrom(vec.items, index))]]

\* remove that builds the result in a fresh slice of just the size needed
removeRealloc(vec, index) ==
    [r |-> at(vec.items, index),
     v |-> [vec EXCEPT !.items = goAppend(goAppend(make(len(vec.items) - 1),
                                                   sliceTo(vec.items, index).elems),
                                          elemsFrom(vec.items, index + 1))]]

remove(vec, index) ==
    [r |-> at(vec.items, index),
     v |-> [vec EXCEPT !.items = goAppend(sliceTo(vec.items, index),
                                          elemsFrom(vec.items, index + 1))]]

(***************************************************************************)
(* The methods: each gives the vector after the call and what it returns.  *)
(***************************************************************************)
\* Add that skips the copy: the item overwrites the element at index
AddWithoutShift(vec, index, item) ==
    IF index = 0 /\ len(vec.items) = 0
    THEN [v |-> append(vec, <<item>>), err |-> ErrNil]
    ELSE LET err == checkIndex(vec, index)
         IN IF err # ErrNil THEN [v |-> vec, err |-> err]
            ELSE LET grown == increaseCapToAtLest(vec, len(vec.items) + 1)
                     longer == goAppend(grown.items, <<0>>)
                 IN [v |-> [grown EXCEPT !.items = setAt(longer, index, item)],
                     err |-> ErrNil]

\* Add that takes every index up to and including the length
AddAcceptsLen(vec, index, item) ==
    IF index < 0 \/ index > len(vec.items) THEN [v |-> vec, err |-> ErrInvalidIndex]
    ELSE LET grown == increaseCapToAtLest(vec, len(vec.items) + 1)
             longer == goAppend(grown.items, <<0>>)
             moved == copy(longer, index + 1, index)
         IN [v |-> [grown EXCEPT !.items = setAt(moved, index, item)],
             err |-> ErrNil]

Add(vec, index, item) ==
    IF index = 0 /\ len(vec.items) = 0
    THEN [v |-> append(vec, <<item>>), err |-> ErrNil]
    ELSE LET err == checkIndex(vec, index)
         IN IF err # ErrNil THEN [v |-> vec, err |-> err]
            ELSE LET grown == increaseCapToAtLest(vec, len(vec.items) + 1)
                     longer == goAppend(grown.items, <<0>>)
                     moved == copy(longer, index + 1, index)
                 IN [v |-> [grown EXCEPT !.items = setAt(moved, index, item)],
                     err |-> ErrNil]

\* Set that always writes the first element
SetFirst(vec, index, item) ==
    LET err == checkIndex(vec, index)
    IN IF err # ErrNil THEN [v |-> vec, err |-> err]
       ELSE [v |-> [vec EXCEPT !.items = setAt(vec.items, 0, item)],
             err |-> ErrNil]

Set(vec, index, item) ==
    LET err == checkIndex(vec, index)
    IN IF err # ErrNil THEN [v |-> vec, err |-> err]
       ELSE [v |-> [vec EXCEPT !.items = setAt(vec.items, index, item)],
             err |-> ErrNil]

VectorAppend(vec, item) == append(vec, <<item>>)

AppendAll(vec, xs) == append(vec, xs)

Remove(vec, index) ==
    LET err == checkIndex(vec, index)
    IN IF err # ErrNil THEN [v |-> vec, r |-> 0, err |-> err]
       ELSE LET done == remove(vec, index)
            IN [v |-> done.v, r |-> done.r, err |-> ErrNil]

Peek(vec, index) ==
    LET err == checkIndex(vec, index)
    IN IF err # ErrNil THEN [r |-> 0, err |-> err]
       ELSE [r |-> at(vec.items, index), err |-> ErrNil]

\* the loop of RemoveIf from index i down to 0; evals lists the calls of cb
RECURSIVE removeIfFrom(_, _, _, _)
removeIfFrom(vec, cb, i, evals) ==
    IF i < 0 THEN [v |-> vec, evals |-> evals]
    ELSE LET item == at(vec.items, i)
             seen == Append(evals, <<i, item>>)
         IN IF ~callPred(cb, item)
            THEN removeIfFrom(vec, cb, i - 1, seen)
            ELSE removeIfFrom(remove(vec, i).v, cb, i - 1, seen)

\* the loop of RemoveIf run upwards: for i := 0; i < len(v.items); i++
RECURSIVE removeIfUpFrom(_, _, _, _)
removeIfUpFrom(vec, cb, i, evals) ==
    IF i >= len(vec.items) THEN [v |-> vec, evals |-> evals]
    ELSE LET item == at(vec.items, i)
             seen == Append(evals, <<i, item>>)
         IN IF ~callPred(cb, item)
            THEN removeIfUpFrom(vec, cb, i + 1, seen)
            ELSE removeIfUpFrom(remove(vec, i).v, cb, i + 1, seen)

RemoveIfUpwards(vec, cb) == removeIfUpFrom(vec, cb, 0, <<>>)

RemoveIf(vec, cb) == removeIfFrom(vec, cb, len(vec.items) - 1, <<>>)

\* Clear that drops the storage with the elements
ClearDropsStorage(vec) == [vec EXCEPT !.items = make(0)]

Clear(vec) == [vec EXCEPT !.items = sliceTo(vec.items, 0)]

\* the lowest index from i on that holds item, or -1
RECURSIVE indexOfFrom(_, _, _)
indexOfFrom(vec, item, i) ==
    IF i >= len(vec.items) THEN -1
    ELSE IF at(vec.items, i) = item THEN i
    ELSE indexOfFrom(vec, item, i + 1)

IndexOf(vec, item) == indexOfFrom(vec, item, 0)

VectorLen(vec) == len(vec.items)

Cap(vec) == cap(vec.items)

\* a returned []int: nil, or its elements
NilSlice == [isNil |-> TRUE, elems |-> <<>>]

\* r starts as the nil slice and is appended to once per element
Slice(vec) ==
    IF len(vec.items) = 0 THEN NilSlice
    ELSE [isNil |-> FALSE, elems |-> vec.items.elems]

\* A *Vector is a sequence of at most one vector, <<>> being nil.  Clone
\* declares its result r (nil) and, inside the locked callback, builds the
\* copy in a new local r (r := ...) that shadows it; the bare return gives
\* the result r back as it was declared.
CloneLocal(vec) == append(NewWithCap(cap(vec.items), vec.multiplier), vec.items.elems)
Clone(vec) ==
    LET r == <<>>
        local == CloneLocal(vec)
    IN r

From(xs) == AppendAll(New, xs)

\* a callback func(a, b int) int is one of these
Combiners == {"add", "sub"}
combine(f, a, b) == IF f = "add" THEN a + b ELSE a - b

\* each: visit is called in index order until it returns false; a visit is
\* the set of the items it returns true for.  calls lists the items visited.
RECURSIVE eachFrom(_, _, _, _)
eachFrom(vec, visit, i, calls) ==
    IF i >= len(vec.items) THEN calls
    ELSE LET item == at(vec.items, i)
         IN IF ~callPred(visit, item) THEN Append(calls, <<i, item>>)
            ELSE eachFrom(vec, visit, i + 1, Append(calls, <<i, item>>))

Each(vec, visit) == eachFrom(vec, visit, 0, <<>>)

\* Any: r starts false; the visitor sets it and stops at the first match
RECURSIVE anyFrom(_, _, _, _, _)
anyFrom(vec, cb, i, r, calls) ==
    IF i >= len(vec.items) THEN [r |-> r, evals |-> calls]
    ELSE LET item == at(vec.items, i)
             seen == Append(calls, <<i, item>>)
         IN IF callPred(cb, item) THEN [r |-> TRUE, evals |-> seen]
            ELSE anyFrom(vec, cb, i + 1, r, seen)

VectorAny(vec, cb) == anyFrom(vec, cb, 0, FALSE, <<>>)

\* All with the result starting true, as the universal quantifier would
RECURSIVE allVacuousFrom(_, _, _, _, _)
allVacuousFrom(vec, cb, i, r, calls) ==
    IF i >= len(vec.items) THEN [r |-> r, evals |-> calls]
    ELSE LET item == at(vec.items, i)
             seen == Append(calls, <<i, item>>)
         IN IF ~callPred(cb, item) THEN [r |-> FALSE, evals |-> seen]
            ELSE allVacuousFrom(vec, cb, i + 1, r, seen)

AllVacuous(vec, cb) == allVacuousFrom(vec, cb, 0, TRUE, <<>>)

\* All: r starts false, is set true at index 0, and the visitor resets it
\* and stops at the first item cb is false for
RECURSIVE allFrom(_, _, _, _, _)
allFrom(vec, cb, i, r, calls) ==
    IF i >= len(vec.items) THEN [r |-> r, evals |-> calls]
    ELSE LET item == at(vec.items, i)
             seen == Append(calls, <<i, item>>)
             r1 == IF i = 0 THEN TRUE ELSE r
         IN IF ~callPred(cb, item) THEN [r |-> FALSE, evals |-> seen]
            ELSE allFrom(vec, cb, i + 1, r1, seen)

All(vec, cb) == allFrom(vec, cb, 0, FALSE, <<>>)

\* the loop of InnerProduct over the receiver's items
RECURSIVE innerProductFrom(_, _, _, _)
innerProductFrom(vec, other, i, r) ==
    IF i >= len(vec.items) THEN r
    ELSE innerProductFrom(vec, other, i + 1,
                          r + at(vec.items, i) * at(other.items, i))

\* InnerProduct that adds the two elements instead of multiplying them
RECURSIVE innerSumFrom(_, _, _, _)
innerSumFrom(vec, other, i, r) ==
    IF i >= len(vec.items) THEN r
    ELSE innerSumFrom(vec, other, i + 1,
                      r + at(vec.items, i) + at(other.items, i))

InnerProductAdds(vec, other) ==
    IF len(vec.items) # len(other.items) THEN [r |-> 0, err |-> ErrSizeDiffers]
    ELSE [r |-> innerSumFrom(vec, other, 0, 0), err |-> ErrNil]

InnerProduct(vec, other) ==
    IF len(vec.items) # len(other.items) THEN [r |-> 0, err |-> ErrSizeDiffers]
    ELSE [r |-> innerProductFrom(vec, other, 0, 0), err |-> ErrNil]

\* Accumulate that combines each item with the item before it
RECURSIVE accumulatePairsFrom(_, _, _, _)
accumulatePairsFrom(vec, f, i, r) ==
    IF i >= len(vec.items) THEN r
    ELSE accumulatePairsFrom(vec, f, i + 1,
             VectorAppend(r, combine(f, at(vec.items, i - 1), at(vec.items, i))))

AccumulatePairs(vec, f) ==
    IF len(vec.items) = 0 THEN New
    ELSE accumulatePairsFrom(vec, f, 1, VectorAppend(New, at(vec.items, 0)))

\* the loop of Accumulate from index i; r is the vector being built
RECURSIVE accumulateFrom(_, _, _, _)
accumulateFrom(vec, f, i, r) ==
    IF i >= len(vec.items) THEN r
    ELSE LET a == Peek(r, VectorLen(r) - 1).r
             b == at(vec.items, i)
         IN accumulateFrom(vec, f, i + 1, VectorAppend(r, combine(f, a, b)))

Accumulate(vec, f) ==
    IF len(vec.items) = 0 THEN New
    ELSE accumulateFrom(vec, f, 1, VectorAppend(New, at(vec.items, 0)))

\* the loop of Reduce from index i; calls lists the calls of cb
RECURSIVE reduceFrom(_, _, _, _, _)
reduceFrom(vec, f, i, r, calls) ==
    IF i >= len(vec.items) THEN [r |-> r, evals |-> calls]
    ELSE LET a == at(vec.items, i)
         IN reduceFrom(vec, f, i + 1, combine(f, r, a), Append(calls, <<r, a>>))

\* Reduce that starts from 0 and combines every item, the first included
ReduceFromZero(vec, f) == reduceFrom(vec, f, 0, 0, <<>>)

Reduce(vec, f) ==
    IF len(vec.items) = 0 THEN [r |-> 0, evals |-> <<>>]
    ELSE reduceFrom(vec, f, 1, at(vec.items, 0), <<>>)

(***************************************************************************)
(* The state: one vector, and the last call made on it.                    *)
(***************************************************************************)
VARIABLES
    v,       \* the vector
    pre,     \* the vector as it was before the last call
    call,    \* the last call: the method and its arguments
    res,     \* what the last call returned
    client,  \* "any": calls the methods above; "loop": only appends 1, 2,
             \* 3, ...; "reader": calls the read-only methods on a From(...);
             \* "threads" and "reenter": the threads of the section below
    heap,    \* the vectors the threads share, by name
    heap0,   \* heap as it was when the threads started
    mx,      \* the sync.RWMutex of each vector of heap
    th       \* each thread: its call and how far it has got

\* the variables of the threads; the single client leaves them alone
conc == <<heap, heap0, mx, th>>
vars == <<v, pre, call, res, client, conc>>

NoCall == [op |-> "New", index |-> 0, item |-> 0, items |-> <<>>, cb |-> {},
           after |-> "", kept |-> 0, f |-> "", other |-> <<>>]
NoRes == [r |-> 0, err |-> ErrNil, vec |-> <<>>, slice |-> NilSlice, evals |-> <<>>,
          ok |-> FALSE]

\* how a call of op at index relates to the call before it
Follows(op, index) ==
    IF op = "Peek" /\ call.op = "Set" /\ res.err = ErrNil /\ call.index = index
        THEN "Set"
    ELSE IF op = "Remove" /\ call.op = "Append" /\ index = len(v.items) - 1
        THEN "Append"
    ELSE IF op \in {"Append", "AppendAll"}
            /\ (call.op = "Clear"
                \/ (call.op \in {"Append", "AppendAll"} /\ call.after = "Clear"))
        THEN "Clear"
    ELSE ""

\* for an append that only appends came before since the last Clear: the
\* capacity that Clear left
Kept(op) ==
    IF Follows(op, 0) # "Clear" THEN 0
    ELSE IF call.op = "Clear" THEN cap(v.items)
    ELSE call.kept

\* the vectors passed as the other operand
Others == {From(xs) : xs \in SeqsUpTo(Items, MaxLen)}

Indexes == -1..(len(v.items) + 1)

Init ==
    /\ \/ /\ client = "any"
          /\ \/ v = New
             \/ \E c \in Capacities, m \in Multipliers : v = NewWithCap(c, m)
       \/ /\ client = "loop"
          /\ v = New
       \/ /\ client = "reader"
          /\ \E xs \in SeqsUpTo(Items, MaxLen) : v = From(xs)
    /\ pre = v
    /\ call = NoCall
    /\ res = NoRes
    /\ heap = <<>>
    /\ heap0 = <<>>
    /\ mx = <<>>
    /\ th = <<>>

CallAdd ==
    /\ client = "any"
    /\ \E index \in Indexes, item \in Items :
         LET out == Add(v, index, item)
         IN /\ len(out.v.items) <= MaxLen
            /\ v' = out.v
            /\ call' = [NoCall EXCEPT !.op = "Add", !.index = index, !.item = item]
            /\ res' = [NoRes EXCEPT !.err = out.err]
    /\ pre' = v
    /\ UNCHANGED <<client, conc>>

CallSet ==
    /\ client = "any"
    /\ \E index \in Indexes, item \in Items :
         LET out == Set(v, index, item)
         IN /\ v' = out.v
            /\ call' = [NoCall EXCEPT !.op = "Set", !.index = index, !.item = item]
            /\ res' = [NoRes EXCEPT !.err = out.err]
    /\ pre' = v
    /\ UNCHANGED <<client, conc>>

CallAppend ==
    /\ client = "any"
    /\ len(v.items) < MaxLen
    /\ \E item \in Items :
         /\ v' = VectorAppend(v, item)
         /\ call' = [NoCall EXCEPT !.op = "Append", !.item = item,
                                   !.after = Follows("Append", 0),
                                   !.kept = Kept("Append")]
    /\ res' = NoRes
    /\ pre' = v
    /\ UNCHANGED <<client, conc>>

\* the loop of TestNew: v.Append(i) for i = 1, 2, ...
LoopAppend ==
    /\ client = "loop"
    /\ len(v.items) < defaultCapacity + RunExtra
    /\ v' = VectorAppend(v, len(v.items) + 1)
    /\ call' = [NoCall EXCEPT !.op = "Append", !.item = len(v.items) + 1]
    /\ res' = NoRes
    /\ pre' = v
    /\ UNCHANGED <<client, conc>>

CallAppendAll ==
    /\ client = "any"
    /\ \E xs \in Batches :
         /\ len(v.items) + Len(xs) <= MaxLen
         /\ v' = AppendAll(v, xs)
         /\ call' = [NoCall EXCEPT !.op = "AppendAll", !.items = xs,
                                   !.after = Follows("AppendAll", 0),
                                   !.kept = Kept("AppendAll")]
    /\ res' = NoRes
    /\ pre' = v
    /\ UNCHANGED <<client, conc>>

CallRemove ==
    /\ client = "any"
    /\ \E index \in Indexes :
         LET out == Remove(v, index)
         IN /\ v' = out.v
            /\ call' = [NoCall EXCEPT !.op = "Remove", !.index = index,
                                      !.after = Follows("Remove", index)]
            /\ res' = [NoRes EXCEPT !.r = out.r, !.err = out.err]
    /\ pre' = v
    /\ UNCHANGED <<client, conc>>

CallRemoveIf ==
    /\ client = "any"
    /\ \E cb \in Predicates :
         LET out == RemoveIf(v, cb)
         IN /\ v' = out.v
            /\ call' = [NoCall EXCEPT !.op = "RemoveIf", !.cb = cb]
            /\ res' = [NoRes EXCEPT !.evals = out.evals]
    /\ pre' = v
    /\ UNCHANGED <<client, conc>>

CallClear ==
    /\ client = "any"
    /\ v' = Clear(v)
    /\ call' = [NoCall EXCEPT !.op = "Clear"]
    /\ res' = NoRes
    /\ pre' = v
    /\ UNCHANGED <<client, conc>>

CallPeek ==
    /\ client = "any"
    /\ \E index \in Indexes :
         LET out == Peek(v, index)
         IN /\ call' = [NoCall EXCEPT !.op = "Peek", !.index = index,
                                      !.after = Follows("Peek", index)]
            /\ res' = [NoRes EXCEPT !.r = out.r, !.err = out.err]
    /\ pre' = v
    /\ UNCHANGED <<v, client, conc>>

CallClone ==
    /\ client = "any"
    /\ call' = [NoCall EXCEPT !.op = "Clone"]
    /\ res' = [NoRes EXCEPT !.vec = Clone(v)]
    /\ pre' = v
    /\ UNCHANGED <<v, client, conc>>

CallIndexOf ==
    /\ client = "any"
    /\ \E item \in Items :
         /\ call' = [NoCall EXCEPT !.op = "IndexOf", !.item = item]
         /\ res' = [NoRes EXCEPT !.r = IndexOf(v, item)]
    /\ pre' = v
    /\ UNCHANGED <<v, client, conc>>

CallLen ==
    /\ client = "any"
    /\ call' = [NoCall EXCEPT !.op = "Len"]
    /\ res' = [NoRes EXCEPT !.r = VectorLen(v)]
    /\ pre' = v
    /\ UNCHANGED <<v, client, conc>>

CallCap ==
    /\ client = "any"
    /\ call' = [NoCall EXCEPT !.op = "Cap"]
    /\ res' = [NoRes EXCEPT !.r = Cap(v)]
    /\ pre' = v
    /\ UNCHANGED <<v, client, conc>>

CallSlice ==
    /\ client = "any"
    /\ call' = [NoCall EXCEPT !.op = "Slice"]
    /\ res' = [NoRes EXCEPT !.slice = Slice(v)]
    /\ pre' = v
    /\ UNCHANGED <<v, client, conc>>

CallEach ==
    /\ client = "reader"
    /\ \E visit \in Predicates :
         /\ call' = [NoCall EXCEPT !.op = "Each", !.cb = visit]
         /\ res' = [NoRes EXCEPT !.evals = Each(v, visit)]
    /\ pre' = v
    /\ UNCHANGED <<v, client, conc>>

CallAny ==
    /\ client = "reader"
    /\ \E cb \in Predicates :
         LET out == VectorAny(v, cb)
         IN /\ call' = [NoCall EXCEPT !.op = "Any", !.cb = cb]
            /\ res' = [NoRes EXCEPT !.ok = out.r, !.evals = out.evals]
    /\ pre' = v
    /\ UNCHANGED <<v, client, conc>>

CallAll ==
    /\ client = "reader"
    /\ \E cb \in Predicates :
         LET out == All(v, cb)
         IN /\ call' = [NoCall EXCEPT !.op = "All", !.cb = cb]
            /\ res' = [NoRes EXCEPT !.ok = out.r, !.evals = out.evals]
    /\ pre' = v
    /\ UNCHANGED <<v, client, conc>>

CallInnerProduct ==
    /\ client = "reader"
    /\ \E other \in Others :
         LET out == InnerProduct(v, other)
         IN /\ call' = [NoCall EXCEPT !.op = "InnerProduct", !.other = <<other>>]
            /\ res' = [NoRes EXCEPT !.r = out.r, !.err = out.err]
    /\ pre' = v
    /\ UNCHANGED <<v, client, conc>>

CallAccumulate ==
    /\ client = "reader"
    /\ \E f \in Combiners :
         /\ call' = [NoCall EXCEPT !.op = "Accumulate", !.f = f]
         /\ res' = [NoRes EXCEPT !.vec = <<Accumulate(v, f)>>]
    /\ pre' = v
    /\ UNCHANGED <<v, client, conc>>

CallReduce ==
    /\ client = "reader"
    /\ \E f \in Combiners :
         LET out == Reduce(v, f)
         IN /\ call' = [NoCall EXCEPT !.op = "Reduce", !.f = f]
            /\ res' = [NoRes EXCEPT !.r = out.r, !.evals = out.evals]
    /\ pre' = v
    /\ UNCHANGED <<v, client, conc>>

Next ==
    \/ CallAdd
    \/ CallSet
    \/ CallAppend
    \/ LoopAppend
    \/ CallAppendAll
    \/ CallRemove
    \/ CallRemoveIf
    \/ CallClear
    \/ CallPeek
    \/ CallClone
    \/ CallIndexOf
    \/ CallLen
    \/ CallCap
    \/ CallSlice
    \/ CallEach
    \/ CallAny
    \/ CallAll
    \/ CallInnerProduct
    \/ CallAccumulate
    \/ CallReduce

Spec == Init /\ [][Next]_vars

(***************************************************************************)
(* Threads.  Several threads call methods of the vectors of heap at the    *)
(* same time.  A method is no longer one step: it takes the lock of its    *)
(* receiver (withLock, withRLock), runs its body step by step, and         *)
(* releases the lock (the deferred Unlock, which also runs when the body   *)
(* panics).  A read of a vector that is not locked by the reader sees the  *)
(* vector as it is at that step, so the interleaving chooses what it sees. *)
(* client = "threads": every thread makes one call that takes no callback; *)
(* client = "reenter": thread 1 calls Each or RemoveIf with a callback     *)
(* that calls a method of the same vector.                                 *)
(***************************************************************************)
\* the number of threads
NThreads == 2
\* the shared vectors start with at most ConcLen items
ConcLen == 2

Threads == 1..NThreads
Insts == {"a", "b"}
\* the runtime error of items[i] with i out of range
ErrPanic == "index out of range"

\* the methods that use withLock; the others use withRLock
Mutators == {"Add", "Set", "Append", "AppendAll", "Remove", "RemoveIf", "Clear"}
TwoVector == {"InnerProduct", "Equal"}
Visitors == {"Each", "RemoveIf"}

\* every method under the read lock
ModeAlwaysRLock(op) == "RLock"
Mode(op) == IF op \in Mutators THEN "Lock" ELSE "RLock"

\* sync.RWMutex: w is the thread that has called Lock and not yet Unlock (0
\* when none), r[t] the number of read locks thread t holds
NewMutex == [w |-> 0, r |-> [t \in Threads |-> 0]]
\* RLock that does not look at the writer
canRLockAlways(m) == TRUE
\* RLock goes through unless a writer holds the lock or waits for it
canRLock(m) == m.w = 0
RLocked(m, t) == [m EXCEPT !.r[t] = @ + 1]
RUnlock(m, t) == [m EXCEPT !.r[t] = @ - 1]
\* Lock first excludes the other writers
canLock(m) == m.w = 0
Locked(m, t) == [m EXCEPT !.w = t]
\* Lock that does not wait for the readers
drainedAlways(m) == TRUE
\* then Lock waits until the readers that hold the lock have released it
drained(m) == \A u \in Threads : m.r[u] = 0
\* withLock without its deferred Unlock
UnlockKeeps(m) == m
Unlock(m) == [m EXCEPT !.w = 0]

\* the receiver of thread t's call
Self(t) == th[t].call.self
\* the method thread t is in: its call, or the call its callback makes
CurOp(t) == IF th[t].in THEN th[t].call.inner ELSE th[t].call.op

\* Unlock that wakes no reader
WokenNone(x) == {}
\* the readers blocked in RLock on x, which Unlock lets in together
Woken(x) == {u \in Threads : th[u].pc = "rwait" /\ Self(u) = x}

\* the item thread t appends, adds or sets: none of the initial items
item(t) == MaxItem + t

\* the calls without a callback
Plain ==
    {[op |-> o, self |-> x, other |-> x, inner |-> ""] :
        o \in {"Append", "Add", "Set", "Remove", "Len"}, x \in Insts}
    \cup {p \in {[op |-> o, self |-> x, other |-> y, inner |-> ""] :
                    o \in TwoVector, x \in Insts, y \in Insts} :
            p.self # p.other}
\* the calls with a callback that calls inner on the receiver
Reentrant ==
    {[op |-> o, self |-> "a", other |-> "a", inner |-> n] :
        o \in Visitors, n \in {"Len", "Append"}}
\* threads 1 and 2 make any call; the threads after them append or read
\* the length
Menu(c, t) ==
    IF c = "threads" /\ t <= 2 THEN Plain
    ELSE IF c = "threads" THEN {p \in Plain : p.op \in {"Append", "Len"}}
    ELSE IF t = 1 THEN Reentrant
    ELSE {p \in Plain : p.self = "a" /\ p.op \in {"Append", "Len"}}

Started(c) == [call |-> c, in |-> FALSE, pc |-> "call", i |-> 0, r |-> 0,
               ok |-> FALSE, err |-> ErrNil, local |-> <<>>]

InitConc ==
    /\ client \in {"threads", "reenter"}
    /\ v = New
    /\ pre = New
    /\ call = NoCall
    /\ res = NoRes
    /\ heap \in [Insts -> {From(xs) : xs \in SeqsUpTo({1}, ConcLen)}]
    /\ heap0 = heap
    /\ mx = [x \in Insts |-> NewMutex]
    /\ th \in {f \in [Threads -> {Started(c) : c \in Plain \cup Reentrant}] :
                \A t \in Threads : f[t].call \in Menu(client, t)}

\* withRLock: v.mx.RLock()
RLock(t) ==
    /\ th[t].pc = "call"
    /\ Mode(CurOp(t)) = "RLock"
    /\ IF canRLock(mx[Self(t)])
       THEN /\ mx' = [mx EXCEPT ![Self(t)] = RLocked(@, t)]
            /\ th' = [th EXCEPT ![t].pc = "body"]
       ELSE /\ th' = [th EXCEPT ![t].pc = "rwait"]
            /\ UNCHANGED mx
    /\ UNCHANGED <<v, pre, call, res, client, heap, heap0>>

\* withLock: v.mx.Lock(), first part
Lock(t) ==
    /\ th[t].pc = "call"
    /\ Mode(CurOp(t)) = "Lock"
    /\ canLock(mx[Self(t)])
    /\ mx' = [mx EXCEPT ![Self(t)] = Locked(@, t)]
    /\ th' = [th EXCEPT ![t].pc = "drain"]
    /\ UNCHANGED <<v, pre, call, res, client, heap, heap0>>

\* withLock: v.mx.Lock(), second part
Drained(t) ==
    /\ th[t].pc = "drain"
    /\ drained(mx[Self(t)])
    /\ th' = [th EXCEPT ![t].pc = "body"]
    /\ UNCHANGED <<v, pre, call, res, client, heap, heap0, mx>>

\* what the body of a mutator makes of vec
Apply(op, t, vec) ==
    IF op = "Append" THEN [v |-> VectorAppend(vec, item(t)), r |-> 0, err |-> ErrNil]
    ELSE IF op = "Add" THEN LET out == Add(vec, 1, item(t))
                            IN [v |-> out.v, r |-> 0, err |-> out.err]
    ELSE IF op = "Set" THEN LET out == Set(vec, 0, item(t))
                            IN [v |-> out.v, r |-> 0, err |-> out.err]
    ELSE Remove(vec, 0)

\* the body of Append, Add, Set, Remove up to its store into v.items
Mutate(t) ==
    /\ th[t].pc = "body"
    /\ CurOp(t) \in {"Append", "Add", "Set", "Remove"}
    /\ LET out == Apply(CurOp(t), t, heap[Self(t)])
       IN IF out.err # ErrNil
          THEN th' = [th EXCEPT ![t].err = out.err, ![t].pc = "unlock"]
          ELSE th' = [th EXCEPT ![t].local = <<out.v>>, ![t].r = out.r,
                                ![t].pc = "write"]
    /\ UNCHANGED <<v, pre, call, res, client, heap, heap0, mx>>

\* the store into v.items
Write(t) ==
    /\ th[t].pc = "write"
    /\ heap' = [heap EXCEPT ![Self(t)] = th[t].local[1]]
    /\ th' = [th EXCEPT ![t].local = <<>>, ![t].pc = "unlock"]
    /\ UNCHANGED <<v, pre, call, res, client, heap0, mx>>

\* the body of Len
ReadLen(t) ==
    /\ th[t].pc = "body"
    /\ CurOp(t) = "Len"
    /\ th' = [th EXCEPT ![t].r = VectorLen(heap[Self(t)]), ![t].pc = "unlock"]
    /\ UNCHANGED <<v, pre, call, res, client, heap, heap0, mx>>

\* InnerProduct, Equal: if v.len() != other.len()
Compare(t) ==
    /\ th[t].pc = "body"
    /\ CurOp(t) \in TwoVector
    /\ IF len(heap[Self(t)].items) # len(heap[th[t].call.other].items)
       THEN th' = [th EXCEPT ![t].err = IF CurOp(t) = "InnerProduct"
                                        THEN ErrSizeDiffers ELSE ErrNil,
                             ![t].pc = "unlock"]
       ELSE th' = [th EXCEPT ![t].i = 0, ![t].pc = "loop"]
    /\ UNCHANGED <<v, pre, call, res, client, heap, heap0, mx>>

\* InnerProduct, Equal: one round of the loop over v.items, which reads
\* other.items[i]
Loop(t) ==
    /\ th[t].pc = "loop"
    /\ LET mine == heap[Self(t)].items
           theirs == heap[th[t].call.other].items
           i == th[t].i
       IN IF i >= len(mine)
          THEN th' = [th EXCEPT ![t].ok = (CurOp(t) = "Equal"), ![t].pc = "unlock"]
          ELSE IF i >= len(theirs)
          THEN th' = [th EXCEPT ![t].err = ErrPanic, ![t].pc = "unlock"]
          ELSE IF CurOp(t) = "InnerProduct"
          THEN th' = [th EXCEPT ![t].r = @ + at(mine, i) * at(theirs, i),
                                ![t].i = i + 1]
          ELSE IF at(theirs, i) # at(mine, i)
          THEN th' = [th EXCEPT ![t].pc = "unlock"]
          ELSE th' = [th EXCEPT ![t].i = i + 1]
    /\ UNCHANGED <<v, pre, call, res, client, heap, heap0, mx>>

\* Each, RemoveIf: the loop over v.items calls the callback, which calls
\* call.inner on the receiver
Visit(t) ==
    /\ th[t].pc = "body"
    /\ ~th[t].in
    /\ CurOp(t) \in Visitors
    /\ IF th[t].i >= len(heap[Self(t)].items)
       THEN th' = [th EXCEPT ![t].pc = "unlock"]
       ELSE th' = [th EXCEPT ![t].in = TRUE, ![t].pc = "call"]
    /\ UNCHANGED <<v, pre, call, res, client, heap, heap0, mx>>

\* the deferred v.mx.Unlock() or v.mx.RUnlock(); the call returns, to the
\* callback's caller when it was the callback's
Release(t) ==
    /\ th[t].pc = "unlock"
    /\ LET x == Self(t)
           woken == IF Mode(CurOp(t)) = "Lock" THEN Woken(x) ELSE {}
           freed == IF Mode(CurOp(t)) = "Lock" THEN Unlock(mx[x])
                    ELSE RUnlock(mx[x], t)
       IN /\ mx' = [mx EXCEPT ![x] =
                        [freed EXCEPT !.r = [u \in Threads |->
                            IF u \in woken THEN freed.r[u] + 1 ELSE freed.r[u]]]]
          /\ th' = [u \in Threads |->
                      IF u = t
                      THEN IF th[t].in
                           THEN [th[t] EXCEPT !.in = FALSE, !.pc = "body", !.i = @ + 1]
                           ELSE [th[t] EXCEPT !.pc = IF th[t].err = ErrPanic
                                                     THEN "panicked" ELSE "done"]
                      ELSE IF u \in woken THEN [th[u] EXCEPT !.pc = "body"]
                      ELSE th[u]]
    /\ UNCHANGED <<v, pre, call, res, client, heap, heap0>>

Step(t) ==
    \/ RLock(t)
    \/ Lock(t)
    \/ Drained(t)
    \/ Mutate(t)
    \/ Write(t)
    \/ ReadLen(t)
    \/ Compare(t)
    \/ Loop(t)
    \/ Visit(t)
    \/ Release(t)

NextConc ==
    \/ \E t \in Threads : RLock(t)
    \/ \E t \in Threads : Lock(t)
    \/ \E t \in Threads : Drained(t)
    \/ \E t \in Threads : Mutate(t)
    \/ \E t \in Threads : Write(t)
    \/ \E t \in Threads : ReadLen(t)
    \/ \E t \in Threads : Compare(t)
    \/ \E t \in Threads : Loop(t)
    \/ \E t \in Threads : Visit(t)
    \/ \E t \in Threads : Release(t)

SpecConc == InitConc /\ [][NextConc]_vars

\* every thread that can take a step eventually takes one
FairSpecConc == SpecConc /\ \A t \in Threads : WF_vars(Step(t))

(***************************************************************************)
(* The claims.  pre is the vector before the last call, v the vector after *)
(* it, call the call and res what it returned.                             *)
(***************************************************************************)
Grows == call.op \in {"Append", "AppendAll", "Add"} /\ res.err = ErrNil
\* the length the last (growing) call needed
Needed == len(pre.items) + (IF call.op = "AppendAll" THEN Len(call.items) ELSE 1)
OutOfRange(index, vec) == index < 0 \/ index >= len(vec.items)

\* C1: Clone returns an actual new Vector with the capacity, the multiplier
\* and the elements of the vector it was called on.
C1_CloneReturnsCopy ==
    call.op = "Clone" =>
        /\ res.vec # <<>>
        /\ res.vec[1].multiplier = pre.multiplier
        /\ cap(res.vec[1].items) = cap(pre.items)
        /\ res.vec[1].items.elems = pre.items.elems

\* C2: no call, mutating or read-only, successful or failing, leaves the
\* capacity smaller than it was before the call.
C2_CapNeverDecreases == cap(v.items) >= cap(pre.items)

\* a call that shortened the vector and kept its capacity
C2_Witness ==
    /\ call.op \in {"Remove", "RemoveIf", "Clear"}
    /\ len(v.items) < len(pre.items)
    /\ cap(v.items) = cap(pre.items)
    /\ cap(v.items) > len(v.items) + 1

\* C3: when Append, AppendAll or Add needs a length n' above the capacity c,
\* the capacity afterwards is exactly max(c * multiplier, n'), computed once
\* for the call; when n' <= c the capacity is unchanged; with a multiplier
\* <= 1 or c = 0 a growth gives exactly n'; and a fresh default vector keeps
\* capacity 10 through its 10th append and has capacity 20 after the 11th.
C3_GrowthPolicy ==
    /\ Grows =>
          IF Needed > cap(pre.items)
          THEN /\ cap(v.items) = Max(cap(pre.items) * pre.multiplier, Needed)
               /\ (pre.multiplier <= 1 \/ cap(pre.items) = 0) => cap(v.items) = Needed
          ELSE cap(v.items) = cap(pre.items)
    /\ client = "loop" =>
          /\ len(v.items) <= defaultCapacity => cap(v.items) = defaultCapacity
          /\ len(v.items) = defaultCapacity + 1
                => cap(v.items) = defaultCapacity * defaultMultiplier

\* the 11th append to a fresh default vector
C3_Witness ==
    /\ client = "loop"
    /\ call.op = "Append"
    /\ len(v.items) = defaultCapacity + 1
    /\ cap(pre.items) = defaultCapacity

C5_InvalidIndexExactly ==
    /\ call.op \in {"Set", "Remove", "Peek"} =>
          res.err = (IF OutOfRange(call.index, pre) THEN ErrInvalidIndex ELSE ErrNil)
    /\ call.op = "Add" =>
          res.err = (IF OutOfRange(call.index, pre)
                        /\ ~(call.index = 0 /\ len(pre.items) = 0)
                     THEN ErrInvalidIndex ELSE ErrNil)

\* Add(0, x) on an empty vector succeeded
C5_Witness ==
    /\ call.op = "Add"
    /\ call.index = 0
    /\ len(pre.items) = 0
    /\ res.err = ErrNil
    /\ v.items.elems = <<call.item>>

\* C6 as claimed: on a non-empty vector, Add at index = length succeeds and
\* appends the item, and Add at index > length fails with InvalidIndex.
C6_AddAtLenAppends ==
    (call.op = "Add" /\ len(pre.items) > 0) =>
        /\ call.index = len(pre.items) =>
              /\ res.err = ErrNil
              /\ v.items.elems = Append(pre.items.elems, call.item)
        /\ call.index > len(pre.items) => res.err = ErrInvalidIndex

\* C6 as amended: on a non-empty vector, Add at index = length fails with
\* InvalidIndex and leaves the vector as it was, as does Add at any greater
\* index; the indices Add accepts are 0..length-1.
C6_AddAtLenFails ==
    (call.op = "Add" /\ len(pre.items) > 0) =>
        /\ call.index >= len(pre.items) => (res.err = ErrInvalidIndex /\ v = pre)
        /\ call.index \in 0..(len(pre.items) - 1) => res.err = ErrNil

\* Add at index = length was refused on a non-empty vector
C6_Witness ==
    /\ call.op = "Add"
    /\ len(pre.items) > 0
    /\ call.index = len(pre.items)
    /\ res.err = ErrInvalidIndex
    /\ v = pre

\* C7: for every index i that Add accepts on elements s, Add(i, x) leaves
\* s[0..i), then x, then s[i..len): one element more, none lost or
\* duplicated, also when the call grows the capacity.
C7_AddInserts ==
    (call.op = "Add" /\ res.err = ErrNil) =>
        /\ v.items.elems = SubSeq(pre.items.elems, 1, call.index)
                            \o <<call.item>>
                            \o SubSeq(pre.items.elems, call.index + 1, len(pre.items))
        /\ len(v.items) = len(pre.items) + 1
        /\ v.multiplier = pre.multiplier

\* an insertion between two different elements that grew the capacity
C7_Witness ==
    /\ call.op = "Add"
    /\ res.err = ErrNil
    /\ call.index = 1
    /\ len(pre.items) = 2
    /\ at(pre.items, 0) # at(pre.items, 1)
    /\ cap(v.items) > cap(pre.items)

\* C8: for every valid index i on elements s, Remove(i) returns s[i] and
\* leaves s[0..i) followed by s[i+1..len), the capacity unchanged; and
\* Append(x) followed by Remove(length-1) returns x and restores the
\* elements that were there before the Append.
C8_RemoveShifts ==
    [][ /\ (call'.op = "Remove" /\ res'.err = ErrNil) =>
              /\ res'.r = at(v.items, call'.index)
              /\ v'.items.elems = SubSeq(v.items.elems, 1, call'.index)
                                   \o SubSeq(v.items.elems, call'.index + 2, len(v.items))
              /\ len(v'.items) = len(v.items) - 1
              /\ cap(v'.items) = cap(v.items)
              /\ v'.multiplier = v.multiplier
        /\ (call.op = "Append" /\ call'.op = "Remove"
               /\ call'.index = len(v.items) - 1) =>
              /\ res'.err = ErrNil
              /\ res'.r = call.item
              /\ v'.items.elems = pre.items.elems
              /\ len(v'.items) = len(pre.items)
      ]_vars

\* Remove(length-1) right after an Append, on a vector that had elements
C8_Witness ==
    /\ call.op = "Remove"
    /\ call.after = "Append"
    /\ res.err = ErrNil
    /\ len(v.items) >= 1

\* C9: Set(i, x) with a valid i changes element i to x and nothing else
\* (the other elements, the length and the capacity stay), and Peek(i)
\* right after it returns x.
C9_SetThenPeek ==
    [][ /\ (call'.op = "Set" /\ res'.err = ErrNil) =>
              /\ v'.items.elems = [v.items.elems EXCEPT ![call'.index + 1] = call'.item]
              /\ len(v'.items) = len(v.items)
              /\ cap(v'.items) = cap(v.items)
              /\ v'.multiplier = v.multiplier
        /\ (call.op = "Set" /\ res.err = ErrNil /\ call'.op = "Peek"
               /\ call'.index = call.index) =>
              /\ res'.err = ErrNil
              /\ res'.r = call.item
      ]_vars

\* Peek(i) right after a Set(i, x) at an index other than the first
C9_Witness ==
    /\ call.op = "Peek"
    /\ call.after = "Set"
    /\ call.index >= 1
    /\ res.err = ErrNil

\* the elements of s that cb answers false for, in their order
RECURSIVE Survivors(_, _)
Survivors(s, cb) ==
    IF s = <<>> THEN <<>>
    ELSE IF Head(s) \in cb THEN Survivors(Tail(s), cb)
    ELSE <<Head(s)>> \o Survivors(Tail(s), cb)

\* C10: after RemoveIf(p) the elements are exactly the prior elements that
\* p is false for, in their order; p was called once per prior element,
\* from the last index to the first; the capacity is unchanged; without a
\* match (or on an empty vector) nothing changes.
C10_RemoveIfFilters ==
    call.op = "RemoveIf" =>
        LET s == pre.items.elems
            n == Len(s)
        IN /\ v.items.elems = Survivors(s, call.cb)
           /\ \A k \in 1..len(v.items) : at(v.items, k - 1) \notin call.cb
           /\ Len(res.evals) = n
           /\ \A k \in 1..n : res.evals[k] = <<n - k, s[n - k + 1]>>
           /\ cap(v.items) = cap(pre.items)
           /\ v.multiplier = pre.multiplier
           /\ (\A k \in 1..n : s[k] \notin call.cb) => v = pre

\* a RemoveIf that removed the first and the last of three elements and
\* kept the one between them
C10_Witness ==
    /\ call.op = "RemoveIf"
    /\ len(pre.items) = 3
    /\ at(pre.items, 0) \in call.cb
    /\ at(pre.items, 1) \notin call.cb
    /\ at(pre.items, 2) \in call.cb
    /\ len(v.items) = 1

\* the calls a traversal of the current vector makes when it visits n items
Visited(n) == [k \in 1..n |-> <<k - 1, at(v.items, k - 1)>>]
\* how many items a traversal visits when it stops at the first index of
\* stops (a set of indexes), or goes to the end when there is none
VisitedUntil(stops) ==
    IF stops = {} THEN len(v.items)
    ELSE 1 + (CHOOSE i \in stops : \A j \in stops : i <= j)

\* C11: Any(p) is true iff some element satisfies p; All(p) is true iff the
\* vector is non-empty and every element satisfies p, so both are false on
\* an empty vector; p is evaluated in index order up to and including the
\* first deciding element (first match for Any, first non-match for All).
C11_AnyAllQuantify ==
    LET idx == 0..(len(v.items) - 1)
        hits == {i \in idx : at(v.items, i) \in call.cb}
    IN /\ call.op = "Any" =>
            /\ res.ok = (hits # {})
            /\ res.evals = Visited(VisitedUntil(hits))
            /\ v = pre
       /\ call.op = "All" =>
            /\ res.ok = (len(v.items) > 0 /\ hits = idx)
            /\ res.evals = Visited(VisitedUntil(idx \ hits))
            /\ v = pre
       /\ (call.op \in {"Any", "All"} /\ len(v.items) = 0) => res.ok = FALSE

\* All was called on an empty vector with a predicate that is true of every
\* item, and answered false
C11_Witness ==
    /\ call.op = "All"
    /\ len(v.items) = 0
    /\ call.cb = Items
    /\ res.ok = FALSE

\* the sum of the products xs[k] * ys[k] of two sequences of one length
RECURSIVE Dot(_, _)
Dot(xs, ys) ==
    IF xs = <<>> THEN 0 ELSE Head(xs) * Head(ys) + Dot(Tail(xs), Tail(ys))

\* C12: a.InnerProduct(b), with neither vector changing meanwhile, returns
\* ErrSizeDiffers iff the lengths differ; otherwise it returns no error and
\* the sum of a[i] * b[i] (0 for two empty vectors); a is left as it was
\* (b is only ever read).
C12_InnerProduct ==
    call.op = "InnerProduct" =>
        LET other == call.other[1]
        IN /\ (res.err = ErrSizeDiffers) = (len(v.items) # len(other.items))
           /\ res.err \in {ErrNil, ErrSizeDiffers}
           /\ res.err = ErrNil => res.r = Dot(v.items.elems, other.items.elems)
           /\ (len(v.items) = 0 /\ len(other.items) = 0) =>
                (res.err = ErrNil /\ res.r = 0)
           /\ v = pre

\* an inner product of two vectors of three items, with two non-zero terms
C12_Witness ==
    /\ call.op = "InnerProduct"
    /\ len(v.items) = 3
    /\ res.err = ErrNil
    /\ res.r = 2

\* C13: v.Accumulate(f) returns a vector r made by New() with as many
\* items as v, r[0] = v[0] and r[i] = f(r[i-1], v[i]) for 1 <= i < Len(v);
\* empty gives empty, one item gives that item; v is left as it was.
C13_AccumulateRunningFold ==
    call.op = "Accumulate" =>
        /\ Len(res.vec) = 1
        /\ LET r == res.vec[1]
           IN /\ r.multiplier = defaultMultiplier
              /\ cap(r.items) >= defaultCapacity
              /\ len(r.items) = len(v.items)
              /\ len(v.items) > 0 => at(r.items, 0) = at(v.items, 0)
              /\ \A i \in 1..(len(v.items) - 1) :
                    at(r.items, i) = combine(call.f, at(r.items, i - 1), at(v.items, i))
        /\ v = pre

\* an accumulation over three items whose last result differs from what
\* combining the last two items gives
C13_Witness ==
    /\ call.op = "Accumulate"
    /\ len(v.items) = 3
    /\ at(res.vec[1].items, 2) # combine(call.f, at(v.items, 1), at(v.items, 2))

\* the left fold of xs from acc
RECURSIVE FoldLeft(_, _, _)
FoldLeft(f, acc, xs) ==
    IF xs = <<>> THEN acc ELSE FoldLeft(f, combine(f, acc, Head(xs)), Tail(xs))

\* C14: v.Reduce(f) returns 0 for an empty v, v[0] for one item without
\* calling f, and otherwise the left fold from v[0], f being called n-1
\* times, the k-th call with the fold so far and v[k]; v is left as it was.
C14_ReduceLeftFold ==
    call.op = "Reduce" =>
        LET s == v.items.elems
            n == Len(s)
        IN /\ n = 0 => (res.r = 0 /\ res.evals = <<>>)
           /\ n = 1 => (res.r = s[1] /\ res.evals = <<>>)
           /\ n > 0 => /\ res.r = FoldLeft(call.f, s[1], Tail(s))
                       /\ Len(res.evals) = n - 1
                       /\ \A k \in 1..(n - 1) :
                            res.evals[k] = <<FoldLeft(call.f, s[1], SubSeq(s, 2, k)),
                                             s[k + 1]>>
           /\ v = pre

\* a subtraction folded over three items: 1 - 1 - 1, or 0 - 0 - 1, ...
C14_Witness ==
    /\ call.op = "Reduce"
    /\ call.f = "sub"
    /\ len(v.items) = 3
    /\ Len(res.evals) = 2
    /\ res.r = -1

\* C15: Clear sets the length to 0 and keeps the capacity; the appends
\* that follow it keep that capacity as long as the length does not exceed
\* it.
C15_ClearKeepsStorage ==
    /\ call.op = "Clear" =>
        /\ len(v.items) = 0
        /\ cap(v.items) = cap(pre.items)
        /\ v.multiplier = pre.multiplier
    /\ (call.op \in {"Append", "AppendAll"} /\ call.after = "Clear") =>
        /\ len(v.items) <= call.kept => cap(v.items) = call.kept
        /\ len(v.items) > call.kept => cap(v.items) > call.kept

\* the second append in a row after a Clear fills the capacity that the
\* Clear kept
C15_Witness ==
    /\ call.op = "Append"
    /\ call.after = "Clear"
    /\ call.kept = 2
    /\ len(v.items) = 2
    /\ cap(v.items) = 2

(***************************************************************************)
(* The claims about threads.                                               *)
(***************************************************************************)
\* thread t has taken the lock for its call and not yet released it
OuterIn(t) == th[t].in \/ th[t].pc \in {"body", "write", "loop", "unlock"}
\* thread t's callback has taken the lock for the call it makes
InnerIn(t) == th[t].in /\ th[t].pc \in {"body", "write", "loop", "unlock"}
\* the threads that are executing the body of a mutating method on x
WritersIn(x) ==
    {t \in Threads : /\ Self(t) = x
                     /\ \/ OuterIn(t) /\ th[t].call.op \in Mutators
                        \/ InnerIn(t) /\ th[t].call.inner \in Mutators}
\* the threads that are executing the body of a read-only method on x
ReadersIn(x) ==
    {t \in Threads : /\ Self(t) = x
                     /\ \/ OuterIn(t) /\ th[t].call.op \notin Mutators
                        \/ InnerIn(t) /\ th[t].call.inner \notin Mutators}
\* the threads whose Append to x has stored its result
AppendedTo(x) ==
    {t \in Threads : /\ Self(t) = x
                     /\ th[t].call.op = "Append"
                     /\ th[t].pc \in {"unlock", "done"}}
\* the threads' calls on x only append or read
OnlyAppends(x) ==
    /\ client = "threads"
    /\ \A t \in Threads : Self(t) = x => th[t].call.op \notin {"Add", "Set", "Remove"}
\* thread t holds no lock
HoldsNothing(t) == \A x \in Insts : mx[x].w # t /\ mx[x].r[t] = 0

\* C16: on one vector at most one mutating method is executing its body,
\* and then no read-only method is; so concurrent Appends all take effect:
\* the length grows by one per Append that has stored, and each appended
\* item is there exactly once.
C16_WritersExclusive ==
    \A x \in Insts :
        /\ Cardinality(WritersIn(x)) <= 1
        /\ WritersIn(x) # {} => ReadersIn(x) = {}
        /\ OnlyAppends(x) =>
            /\ len(heap[x].items) = len(heap0[x].items) + Cardinality(AppendedTo(x))
            /\ \A t \in AppendedTo(x) :
                Cardinality({k \in 1..len(heap[x].items) :
                                heap[x].items.elems[k] = item(t)}) = 1

\* two threads have appended to the same vector, which holds both items
C16_Witness ==
    \E x \in Insts :
        /\ Cardinality({t \in AppendedTo(x) : th[t].pc = "done"}) >= 2
        /\ len(heap[x].items) = len(heap0[x].items) + 2

\* the thread's callback calls a method of the vector its own call is on
Reenters(t) == th[t].call.inner # ""

\* C17 as stated: a callback that calls any method of the same vector never
\* gets the lock, and never returns.
C17_ReentryNeverAcquires ==
    \A t \in Threads : Reenters(t) => (~InnerIn(t) /\ th[t].i = 0)

\* C17: the callback runs with the lock of its caller held.  When the
\* caller is RemoveIf, or the call the callback makes is a mutating one, the
\* inner call never gets the lock and no callback ever returns.  When both
\* are read-only the inner call does get the read lock again, unless
\* another thread waits for the write lock: then the inner call is blocked
\* behind that writer, which waits for the caller.
C17_ReentryDeadlocks ==
    \A t \in Threads : Reenters(t) =>
        LET m == mx[Self(t)]
        IN /\ th[t].in =>
                IF th[t].call.op \in Mutators THEN m.w = t ELSE m.r[t] >= 1
           /\ (th[t].call.op \in Mutators \/ th[t].call.inner \in Mutators) =>
                /\ ~InnerIn(t)
                /\ th[t].i = 0
                /\ th[t].in => th[t].pc \in {"call", "rwait", "drain"}
           /\ (th[t].in /\ th[t].pc = "rwait" /\ th[t].call.op \notin Mutators) =>
                /\ m.w \notin {0, t}
                /\ th[m.w].pc = "drain"
                /\ m.r[t] = 1

\* the callback of Each calls Len while another thread waits in Lock: the
\* callback waits for that thread, and that thread waits for Each
C17_Witness ==
    \E t \in Threads, u \in Threads :
        /\ th[t].call.op = "Each"
        /\ th[t].call.inner = "Len"
        /\ th[t].in
        /\ th[t].pc = "rwait"
        /\ th[u].pc = "drain"
        /\ mx[Self(t)].w = u

\* C18: a.InnerProduct(b) and a.Equal(b) hold a's read lock and nothing of
\* b's while they run: a cannot change under them (no mutating method is in
\* its body on a, the loop index stays within a), but b can.
C18_LocksSelfOnly ==
    \A t \in Threads :
        (th[t].call.op \in TwoVector /\ th[t].pc \in {"body", "loop", "unlock"}) =>
            /\ mx[Self(t)].r[t] = 1
            /\ mx[th[t].call.other].r[t] = 0
            /\ mx[th[t].call.other].w # t
            /\ WritersIn(Self(t)) = {}
            /\ th[t].i <= len(heap[Self(t)].items)

\* b got shorter after the lengths were compared: the loop reads b at an
\* index that b no longer has, while a is as it was
C18_Witness ==
    \E t \in Threads :
        /\ th[t].call.op \in TwoVector
        /\ th[t].err = ErrPanic
        /\ th[t].i < len(heap[Self(t)].items)
        /\ th[t].i >= len(heap[th[t].call.other].items)
        /\ heap[th[t].call.other] # heap0[th[t].call.other]
        /\ heap[Self(t)] = heap0[Self(t)]

\* the call of thread t has failed with one of the package's errors
Failed(t) == th[t].err \in {ErrInvalidIndex, ErrSizeDiffers}

\* C19: the step in which Add, Set or Remove finds the index invalid, or
\* InnerProduct finds the sizes different, and the steps of that call after
\* it, change no vector; the call holds its lock meanwhile, so no other
\* thread changes the receiver either; and once the call has returned the
\* thread holds no lock.
C19_FailureChangesNothing ==
    /\ [](\A t \in Threads :
            /\ (Failed(t) /\ th[t].pc = "unlock") =>
                 /\ th[t].local = <<>>
                 /\ WritersIn(Self(t)) \subseteq {t}
                 /\ IF th[t].call.op \in Mutators
                    THEN mx[Self(t)].w = t ELSE mx[Self(t)].r[t] = 1
            /\ th[t].pc \in {"done", "panicked"} => HoldsNothing(t))
    /\ [][\A t \in Threads :
            (Failed(t)' /\ th'[t] # th[t]) => heap' = heap]_vars

\* a call on x has failed and returned, and a later call on x is in its
\* body with the write lock
C19_Witness ==
    \E t \in Threads, u \in Threads :
        /\ th[t].pc = "done"
        /\ th[t].err = ErrInvalidIndex
        /\ th[t].call.op \in {"Add", "Set", "Remove"}
        /\ Self(u) = Self(t)
        /\ th[u].pc = "write"
        /\ mx[Self(t)].w = u
        /\ heap = heap0

\* the call of thread t is over and has released its lock
Ended(t) == th[t].pc \in {"done", "panicked"} /\ HoldsNothing(t)
\* thread t waits for a lock
Waits(t) == th[t].pc \in {"call", "rwait", "drain"}

\* C20 as stated: every call returns.
C20_EveryCallReturns ==
    \A t \in Threads : (client = "threads") ~> (th[t].pc = "done")

\* C20: with callbacks that do not re-enter, a thread that waits for a lock
\* holds no lock but the one it waits for, and under fair scheduling every
\* call ends with its lock released: it returns, or, for InnerProduct and
\* Equal on a vector that another thread has changed meanwhile, it panics
\* on an index out of range, which takes a Remove on that vector to have
\* stored (the deferred RUnlock runs all the same).
C20_EveryCallEnds ==
    /\ [](client = "threads" =>
            \A t \in Threads :
                /\ Waits(t) => /\ \A x \in Insts : mx[x].r[t] = 0
                               /\ \A x \in Insts \ {Self(t)} : mx[x].w # t
                /\ th[t].pc = "panicked" =>
                     /\ th[t].call.op \in TwoVector
                     /\ \E u \in Threads \ {t} :
                            /\ Self(u) = th[t].call.other
                            /\ th[u].call.op = "Remove"
                            /\ th[u].err = ErrNil
                            /\ th[u].pc \in {"unlock", "done"})
    /\ \A t \in Threads : (client = "threads") ~> Ended(t)

\* a.InnerProduct(b) and b.InnerProduct(a) are in their loops together
C20_Witness ==
    \E t \in Threads, u \in Threads :
        /\ th[t].call.op = "InnerProduct"
        /\ th[u].call.op = "InnerProduct"
        /\ Self(t) = "a"
        /\ Self(u) = "b"
        /\ th[t].pc = "loop"
        /\ th[u].pc = "loop"

====
